---- MODULE Spec2Model ----
(***************************************************************************)
(* Fake-Review-Detector: the feature extractor (app/services/features.py), *)
(* the rule-based detector (app/services/detector.py), the request models  *)
(* (app/models/review.py) and the three analysis endpoints                 *)
(* (app/api/routes.py).                                                    *)
(*                                                                         *)
(* Numbers.  Sub-scores are kept in hundredths (0.15 is 15), the weights   *)
(* in hundredths (0.25 is 25), fake_probability in ten-thousandths         *)
(* (0.6175 is 6175) and confidence_score in ten-thousandths of a percent   *)
(* point (61.75 is 617500).  Sentiment compounds are in ten-thousandths    *)
(* (VADER rounds to four decimals).  Ratios are records [num, den] and are *)
(* compared by cross multiplication.                                       *)
(*                                                                         *)
(* Texts are strings over letters, digits, blank, line feed and the        *)
(* punctuation . ! ? ' - ; Ch(t, i) is the i-th character of t.            *)
(***************************************************************************)
EXTENDS Integers, Sequences, FiniteSets, TLC

(* Characters (Python str methods and the re character classes)            *)

UpperCase == "ABCDEFGHIJKLMNOPQRSTUVWXYZ"
LowerCase == "abcdefghijklmnopqrstuvwxyz"
DigitChars == "0123456789"

Ch(t, i) == SubSeq(t, i, i)

CharSet(str) == {Ch(str, i) : i \in 1..Len(str)}

Upper == CharSet(UpperCase)
WordChars == CharSet(UpperCase) \cup CharSet(LowerCase) \cup CharSet(DigitChars) \cup {"_"}
LowerMap == [c \in Upper |-> LET k == CHOOSE i \in 1..Len(UpperCase) : Ch(UpperCase, i) = c
                             IN  Ch(LowerCase, k)]

\* c.isupper()
isupper(c) == c \in Upper

\* the characters str.split() splits on
isspace(c) == c \in {" ", "\n", "\t"}

\* text.lower()
RECURSIVE LowerRange(_, _, _)
LowerRange(t, a, b) ==
    IF a > b THEN ""
    ELSE IF a = b THEN (IF Ch(t, a) \in Upper THEN LowerMap[Ch(t, a)] ELSE Ch(t, a))
    ELSE LET m == (a + b) \div 2 IN LowerRange(t, a, m) \o LowerRange(t, m + 1, b)

lower(t) == LowerRange(t, 1, Len(t))

\* text.count(ch)
count(t, ch) == Cardinality({i \in 1..Len(t) : Ch(t, i) = ch})

\* sub in text
Contains(t, sub) ==
    \E i \in 1..(Len(t) - Len(sub) + 1) : SubSeq(t, i, i + Len(sub) - 1) = sub

RECURSIVE Repeat(_, _)
Repeat(str, n) ==
    IF n = 0 THEN ""
    ELSE IF n % 2 = 0 THEN LET h == Repeat(str, n \div 2) IN h \o h
    ELSE str \o Repeat(str, n - 1)

\* sum(f[i] for i in a..b)
RECURSIVE SumRange(_, _, _)
SumRange(f, a, b) ==
    IF a > b THEN 0
    ELSE IF a = b THEN f[a]
    ELSE LET m == (a + b) \div 2 IN SumRange(f, a, m) + SumRange(f, m + 1, b)

Min(a, b) == IF a < b THEN a ELSE b
Max(a, b) == IF a > b THEN a ELSE b
Abs(a) == IF a < 0 THEN -a ELSE a

(* Double-precision arithmetic.  Python's float is the IEEE 754 binary64:  *)
(* every literal, sum and product is rounded to the nearest number with a  *)
(* 53-bit significand, ties to the even one.  A natural number too wide    *)
(* for TLC's integers is the sequence of its digits in base 2^13, lowest   *)
(* first, without leading zeros; a double is [m, e], worth m * 2^e.        *)

LimbBits == 13
Limb == 8192

\* the digits a, without the zeros at the high end
RECURSIVE Norm(_)
Norm(a) == IF a # <<>> /\ a[Len(a)] = 0 THEN Norm(SubSeq(a, 1, Len(a) - 1)) ELSE a

\* the digits of the integer n
RECURSIVE FromInt(_)
FromInt(n) == IF n = 0 THEN <<>> ELSE <<n % Limb>> \o FromInt(n \div Limb)

Digit(a, i) == IF i <= Len(a) THEN a[i] ELSE 0

\* a + b + carry, from the digit i on
RECURSIVE AddFrom(_, _, _, _)
AddFrom(a, b, i, carry) ==
    IF i > Len(a) /\ i > Len(b) THEN FromInt(carry)
    ELSE <<(Digit(a, i) + Digit(b, i) + carry) % Limb>>
         \o AddFrom(a, b, i + 1, (Digit(a, i) + Digit(b, i) + carry) \div Limb)

BigAdd(a, b) == AddFrom(a, b, 1, 0)

\* a * k + carry for an integer k below 2^17, from the digit i on
RECURSIVE MulSmallFrom(_, _, _, _)
MulSmallFrom(a, k, i, carry) ==
    IF i > Len(a) THEN FromInt(carry)
    ELSE <<(a[i] * k + carry) % Limb>> \o MulSmallFrom(a, k, i + 1, (a[i] * k + carry) \div Limb)

BigMulSmall(a, k) == Norm(MulSmallFrom(a, k, 1, 0))

Zeros(n) == [i \in 1..n |-> 0]

\* a * b, digit by digit of a from the digit i on
RECURSIVE MulFrom(_, _, _)
MulFrom(a, b, i) ==
    IF i > Len(a) THEN <<>>
    ELSE BigAdd(Norm(Zeros(i - 1) \o BigMulSmall(b, a[i])), MulFrom(a, b, i + 1))

BigMul(a, b) == Norm(MulFrom(a, b, 1))

\* the sign of a - b, comparing from the digit i down
RECURSIVE CmpFrom(_, _, _)
CmpFrom(a, b, i) ==
    IF i = 0 THEN 0
    ELSE IF a[i] # b[i] THEN (IF a[i] < b[i] THEN -1 ELSE 1)
    ELSE CmpFrom(a, b, i - 1)

BigCmp(a, b) ==
    IF Len(a) # Len(b) THEN (IF Len(a) < Len(b) THEN -1 ELSE 1)
    ELSE CmpFrom(a, b, Len(a))

\* the number of binary digits of the integer n, and of a
RECURSIVE Bits(_)
Bits(n) == IF n = 0 THEN 0 ELSE 1 + Bits(n \div 2)

BitLen(a) == IF a = <<>> THEN 0 ELSE LimbBits * (Len(a) - 1) + Bits(a[Len(a)])

\* the binary digit number k of a, the lowest being number 0
Bit(a, k) == (Digit(a, (k \div LimbBits) + 1) \div (2 ^ (k % LimbBits))) % 2

\* the binary digits of a below number k are all zero
LowZero(a, k) ==
    /\ \A i \in 1..(k \div LimbBits) : Digit(a, i) = 0
    /\ Digit(a, (k \div LimbBits) + 1) % (2 ^ (k % LimbBits)) = 0

\* a * 2^s
ShiftLeft(a, s) == Norm(Zeros(s \div LimbBits) \o BigMulSmall(a, 2 ^ (s % LimbBits)))

\* a \div 2^s
ShiftRight(a, s) ==
    Norm([i \in 1..(Len(a) - (s \div LimbBits)) |->
            (Digit(a, i + (s \div LimbBits)) \div (2 ^ (s % LimbBits)))
            + (Digit(a, i + (s \div LimbBits) + 1) % (2 ^ (s % LimbBits))) * (2 ^ (LimbBits - (s % LimbBits)))])

\* a \div d and a % d for an integer d below 2^17, from the digit i down
RECURSIVE DivSmallFrom(_, _, _, _)
DivSmallFrom(a, d, i, rest) ==
    IF i = 0 THEN [quotient |-> <<>>, remainder |-> rest]
    ELSE [ quotient  |-> DivSmallFrom(a, d, i - 1, (rest * Limb + a[i]) % d).quotient
                         \o <<(rest * Limb + a[i]) \div d>>,
           remainder |-> DivSmallFrom(a, d, i - 1, (rest * Limb + a[i]) % d).remainder ]

BigDivSmall(a, d) == DivSmallFrom(a, d, Len(a), 0)

\* the double nearest to n * 2^e, ties to even; inexact tells that n was
\* itself cut short of the number meant
Rounded(q, e, up) == [m |-> IF up THEN BigAdd(q, <<1>>) ELSE q, e |-> e]

Round(n, e, inexact) ==
    IF BitLen(n) <= 53 THEN [m |-> n, e |-> e]
    ELSE Rounded(ShiftRight(n, BitLen(n) - 53), e + BitLen(n) - 53,
                 /\ Bit(n, BitLen(n) - 54) = 1
                 /\ \/ inexact
                    \/ ~LowZero(n, BitLen(n) - 54)
                    \/ Bit(n, BitLen(n) - 53) = 1)

\* the literal num/den, as 0.15 is 15/100
Quotient(division) == Round(Norm(division.quotient), -78, division.remainder # 0)

Literal(num, den) == Quotient(BigDivSmall(ShiftLeft(FromInt(num), 78), den))

\* float(n)
Float(n) == [m |-> FromInt(n), e |-> 0]

MinE(x, y) == IF x.e < y.e THEN x.e ELSE y.e

\* x + y, x * y and the sign of x - y
FAdd(x, y) == Round(BigAdd(ShiftLeft(x.m, x.e - MinE(x, y)), ShiftLeft(y.m, y.e - MinE(x, y))), MinE(x, y), FALSE)

FMul(x, y) == Round(BigMul(x.m, y.m), x.e + y.e, FALSE)

FCmp(x, y) == BigCmp(ShiftLeft(x.m, x.e - MinE(x, y)), ShiftLeft(y.m, y.e - MinE(x, y)))

\* min(x, y)
FMin(x, y) == IF FCmp(y, x) < 0 THEN y ELSE x

\* x + terms[i] + ..
RECURSIVE FSum(_, _, _)
FSum(x, terms, i) == IF i > Len(terms) THEN x ELSE FSum(FAdd(x, terms[i]), terms, i + 1)

(* Regular expressions, as re.search / re.findall evaluate them.  A        *)
(* pattern \b(a1|a2|..)\b is the set of its literal alternatives; a        *)
(* pattern \b(..)\b.*\b(..)\b is two such groups, and "." does not match a *)
(* line feed.                                                              *)

\* the literal lit occurs in t at position i
MatchAt(t, i, lit) ==
    /\ i + Len(lit) - 1 <= Len(t)
    /\ SubSeq(t, i, i + Len(lit) - 1) = lit

\* \b between positions i-1 and i
WordBoundary(t, i) ==
    LET before == i > 1 /\ Ch(t, i - 1) \in WordChars
        after  == i <= Len(t) /\ Ch(t, i) \in WordChars
    IN  before # after

\* the matches <<start, end + 1>> of \b(alts)\b in t
GroupMatches(t, alts) ==
    UNION { { <<i, i + Len(a)>> : i \in { j \in 1..Len(t) :
                                            /\ Ch(t, j) = Ch(a, 1)
                                            /\ MatchAt(t, j, a)
                                            /\ WordBoundary(t, j)
                                            /\ WordBoundary(t, j + Len(a)) } }
            : a \in alts }

\* a search whose "." matches a line feed too, as under re.DOTALL
re_search_dotall(pattern, t) ==
    LET first  == GroupMatches(t, pattern.first)
        second == GroupMatches(t, pattern.second)
    IN  IF pattern.second = {}
        THEN first # {}
        ELSE \E m \in first : \E n \in second : m[2] <= n[1]

\* re.search(pattern, t) is not None
re_search(pattern, t) ==
    LET first  == GroupMatches(t, pattern.first)
        second == GroupMatches(t, pattern.second)
        feeds  == {i \in 1..Len(t) : Ch(t, i) = "\n"}
    IN  IF pattern.second = {}
        THEN first # {}
        ELSE \E m \in first : \E n \in second :
                /\ m[2] <= n[1]
                /\ \A f \in feeds : ~(m[2] <= f /\ f < n[1])

\* len(re.findall(r'(.)\1{2,}', text)): the runs of three or more equal
\* characters, each run matched once
repeated_chars(t) ==
    Cardinality({i \in 1..Len(t) :
                    /\ Ch(t, i) # "\n"
                    /\ i = 1 \/ Ch(t, i - 1) # Ch(t, i)
                    /\ i + 2 <= Len(t)
                    /\ Ch(t, i + 1) = Ch(t, i)
                    /\ Ch(t, i + 2) = Ch(t, i)})

(* Tokenizers.  Tokens are kept as a function from the position where a    *)
(* token starts to the token: every feature uses only how many tokens      *)
(* there are and which strings they are.                                   *)

RECURSIVE ChunkEnd(_, _, _)
ChunkEnd(t, i, stops) ==
    IF i = Len(t) \/ (i + 1) \in stops THEN i ELSE ChunkEnd(t, i + 1, stops)

\* text.lower().split(), applied to the lowered text
split(t) ==
    LET blanks == {i \in 1..Len(t) : isspace(Ch(t, i))}
        starts == {i \in 1..Len(t) : i \notin blanks /\ (i = 1 \/ (i - 1) \in blanks)}
    IN  [s \in starts |-> SubSeq(t, s, ChunkEnd(t, s, blanks))]

\* len(text.split('.'))
split_sentences(t) == count(t, ".") + 1

\* nltk.word_tokenize (NLTK library, not part of the repository), on the
\* model's alphabet: tokens are separated by white space, every ! and ? is
\* a token of its own, and so is a period that ends a white-space
\* delimited chunk.
word_tokenize(t) ==
    LET blanks == {i \in 1..Len(t) : isspace(Ch(t, i))}
        marks  == {i \in 1..Len(t) :
                      \/ Ch(t, i) \in {"!", "?"}
                      \/ Ch(t, i) = "." /\ (i = Len(t) \/ (i + 1) \in blanks)}
        starts == {i \in 1..Len(t) :
                      /\ i \notin blanks
                      /\ i \in marks \/ i = 1 \/ (i - 1) \in blanks \/ (i - 1) \in marks}
    IN  [s \in starts |-> IF s \in marks THEN Ch(t, s)
                          ELSE SubSeq(t, s, ChunkEnd(t, s, blanks \cup marks))]

\* len(nltk.sent_tokenize(text)) (NLTK library), on the model's alphabet:
\* a sentence ends at a . ! or ? that is followed by white space and more
\* text; a text without any token has no sentence.
sent_tokenize(t) ==
    LET inked == {i \in 1..Len(t) : ~isspace(Ch(t, i))}
        ends  == {i \in inked : /\ Ch(t, i) \in {".", "!", "?"}
                                /\ (i + 1) \notin inked
                                /\ \E j \in inked : j > i}
    IN  IF inked = {} THEN 0 ELSE Cardinality(ends) + 1

(* Exceptions.  An operation that can raise returns either its value or   *)
(* Raise(name).                                                            *)

Raise(name) == [raised |-> name]
IsRaise(v) == DOMAIN v = {"raised"}

\* dict.update: the keys of more override those of base
update(base, more) == more @@ base

\* an Optional value: None, or Some(v)
None == <<>>
Some(v) == <<v>>

(* FeatureExtractor                                                        *)

\* nltk.corpus.stopwords.words('english') (NLTK data), a sample of it
ENGLISH_STOPWORDS == {"i", "this", "the", "is", "a", "for", "it", "so", "but", "and", "be", "to"}

\* the values SentimentIntensityAnalyzer.polarity_scores can return (NLTK
\* library): compound in [-1, 1] rounded to four decimals, pos + neg + neu = 1
VADER_SCORES == <<
    [compound |-> -9000, pos |-> 0,    neg |-> 7000, neu |-> 3000],
    [compound |-> -8000, pos |-> 0,    neg |-> 5000, neu |-> 5000],
    [compound |-> -2500, pos |-> 1000, neg |-> 2000, neu |-> 7000],
    [compound |-> 0,     pos |-> 0,    neg |-> 0,    neu |-> 10000],
    [compound |-> 3000,  pos |-> 2000, neg |-> 500,  neu |-> 7500],
    [compound |-> 8000,  pos |-> 5000, neg |-> 0,    neu |-> 5000],
    [compound |-> 9500,  pos |-> 7000, neg |-> 0,    neu |-> 3000] >>

SuperlativeWords == {"amazing", "incredible", "outstanding", "perfect", "excellent"}
FiveStars == {"five star", "five stars", "5 star", "5 stars"}

\* patterns whose fourth looks for the quality phrase first
FAKE_PATTERNS_quality_first == <<
    [first |-> SuperlativeWords, second |-> SuperlativeWords],
    [first |-> {"highly recommend", "must buy", "best purchase", "love it so much"}, second |-> {}],
    [first |-> FiveStars, second |-> FiveStars],
    [first |-> {"great quality", "excellent product"}, second |-> {"fast shipping", "quick delivery"}] >>

\* self.fake_patterns; "stars?" is written out as its two literals, and the
\* alternative of five star symbols is left out: no text of the model
\* holds that symbol
FAKE_PATTERNS == <<
    [first |-> SuperlativeWords, second |-> SuperlativeWords],
    [first |-> {"highly recommend", "must buy", "best purchase", "love it so much"}, second |-> {}],
    [first |-> FiveStars, second |-> FiveStars],
    [first |-> {"fast shipping", "quick delivery"}, second |-> {"great quality", "excellent product"}] >>

\* r'\b(great|good|nice|awesome|amazing)\b'
POSITIVE_REGEX == {"great", "good", "nice", "awesome", "amazing"}

positive_words == {"good", "great", "excellent", "amazing", "wonderful", "fantastic", "perfect", "love", "best", "awesome"}
negative_words == {"bad", "terrible", "awful", "horrible", "worst", "hate", "disappointing", "poor", "useless"}

\* the tokenizer in use: NLTK's when the import succeeded and the call
\* does not raise (its punkt data is there), else the try/except fallback
UsesNltk(nltk_available, punkt) == nltk_available /\ punkt

_count_repeated_words(text, nltk) ==
    LET words == IF nltk THEN word_tokenize(lower(text)) ELSE split(lower(text))
        seen  == {words[s] : s \in DOMAIN words}
    IN  Cardinality({w \in seen : Cardinality({s \in DOMAIN words : words[s] = w}) > 1})

_extract_text_features(text, nltk, stop_words) ==
    LET words      == IF nltk THEN word_tokenize(lower(text)) ELSE split(lower(text))
        sentences  == IF nltk THEN sent_tokenize(text) ELSE split_sentences(text)
        word_count == Cardinality(DOMAIN words)
        \* sum(len(word) for word in words): one pair per character of a word
        letters    == UNION { {<<s, k>> : k \in 1..Len(words[s])} : s \in DOMAIN words }
    IN  [ text_length          |-> Len(text),
          word_count           |-> word_count,
          sentence_count       |-> sentences,
          avg_word_length      |-> IF word_count > 0
                                   THEN [num |-> Cardinality(letters), den |-> word_count]
                                   ELSE [num |-> 0, den |-> 1],
          avg_sentence_length  |-> IF sentences > 0
                                   THEN [num |-> word_count, den |-> sentences]
                                   ELSE [num |-> 0, den |-> 1],
          capitalization_ratio |-> IF Len(text) > 0
                                   THEN [num |-> Cardinality({i \in 1..Len(text) : isupper(Ch(text, i))}),
                                         den |-> Len(text)]
                                   ELSE [num |-> 0, den |-> 1],
          exclamation_count    |-> count(text, "!"),
          question_count       |-> count(text, "?"),
          repeated_chars       |-> repeated_chars(text),
          repeated_words       |-> _count_repeated_words(text, nltk),
          stopword_ratio       |-> IF word_count > 0 /\ stop_words # {}
                                   THEN [num |-> Cardinality({s \in DOMAIN words : words[s] \in stop_words}),
                                         den |-> word_count]
                                   ELSE [num |-> 0, den |-> 1] ]

\* the fallback sentiment; its scores are ratios
_simple_sentiment(text) ==
    LET text_lower == lower(text)
        pos_count  == Cardinality({w \in positive_words : Contains(text_lower, w)})
        neg_count  == Cardinality({w \in negative_words : Contains(text_lower, w)})
        total      == pos_count + neg_count
        n          == Cardinality(DOMAIN split(text_lower))
    IN  IF total = 0
        THEN [compound |-> [num |-> 0, den |-> 1], pos |-> [num |-> 0, den |-> 1],
              neg |-> [num |-> 0, den |-> 1], neu |-> [num |-> 1, den |-> 1]]
        ELSE [compound |-> [num |-> pos_count - neg_count, den |-> Max(total, 1)],
              pos |-> [num |-> Min(n, 3 * pos_count), den |-> n],
              neg |-> [num |-> Min(n, 3 * neg_count), den |-> n],
              neu |-> [num |-> Max(0, n - 3 * pos_count - 3 * neg_count), den |-> n]]

(* The review texts of the model: the two reviews of test_api.py and      *)
(* texts on both sides of every length bound and of every pattern.         *)

AUTHENTIC_REVIEW == "I've been using this laptop for 3 months now. The performance is good for programming and light gaming. Battery life is around 6-7 hours which is acceptable. The keyboard is comfortable but the trackpad could be more responsive. Overall a decent machine for the price."
FAKE_REVIEW == "AMAZING AMAZING AMAZING!!! This is the BEST laptop EVER!!! Five stars! Highly recommend! Must buy! Perfect quality! Fast shipping! Love it so much!!! BEST PURCHASE EVER!!!"

\* 2000 characters and 2001 characters
LONG_REVIEW == Repeat("The unit works as described. ", 68) \o "It does what it needs to do."
TOO_LONG_REVIEW == LONG_REVIEW \o "."
\* 5001 characters
OVERSIZED_TEXT == Repeat("0123456789", 500) \o "!"

TEXTS == <<
    AUTHENTIC_REVIEW,
    FAKE_REVIEW,
    "ok",
    " ",
    "Great!!!! LOVE IT!!",
    "Works fine. Love it.",
    "amazing phone and amazing price overall",
    "The screen is perfect.\nThe sound is excellent.",
    "fast shipping and great quality for sure",
    "great quality and fast shipping for sure",
    "wonderful fantastic love best value here",
    "nice nice good great phone today",
    "five stars! Really 5 stars for this item",
    LONG_REVIEW,
    TOO_LONG_REVIEW,
    "it is ok for me",
    "good great nice awesome phone today",
    "good value, great price, nice screen",
    "amazing and perfect, must buy, great good nice, five stars and 5 stars" >>

TextIndex(text) == CHOOSE i \in 1..Len(TEXTS) : TEXTS[i] = text
ValidTexts == {TEXTS[i] : i \in 1..Len(TEXTS)}

\* the features of the model's texts, worked out once per text, tokenizer
\* and stop word set: one row per text
TEXT_FEATURES ==
    { [ text       |-> t,
        nltk_stop  |-> _extract_text_features(t, TRUE, ENGLISH_STOPWORDS),
        nltk_bare  |-> _extract_text_features(t, TRUE, {}),
        split_stop |-> _extract_text_features(t, FALSE, ENGLISH_STOPWORDS),
        split_bare |-> _extract_text_features(t, FALSE, {}) ] : t \in ValidTexts }

text_features(text, nltk, stop_words) ==
    IF text \in ValidTexts /\ stop_words = ENGLISH_STOPWORDS
    THEN LET row == CHOOSE r \in TEXT_FEATURES : r.text = text
         IN  IF nltk THEN row.nltk_stop ELSE row.split_stop
    ELSE IF text \in ValidTexts /\ stop_words = {}
    THEN LET row == CHOOSE r \in TEXT_FEATURES : r.text = text
         IN  IF nltk THEN row.nltk_bare ELSE row.split_bare
    ELSE _extract_text_features(text, nltk, stop_words)

SIMPLE_SENTIMENT == { [text |-> t, scores |-> _simple_sentiment(t)] : t \in ValidTexts }

\* self.sia.polarity_scores(text) (NLTK library): a function of the text
\* alone, fixed by the lexicon the analyser was built with.  The analyser
\* Some(k) gives the text number i the scores number (k + i) of
\* VADER_SCORES, so that over the analysers every text meets every score.
polarity_scores(sia, text) ==
    LET v == VADER_SCORES[((sia[1] + TextIndex(text)) % Len(VADER_SCORES)) + 1]
    IN  [compound |-> [num |-> v.compound, den |-> 10000],
         pos      |-> [num |-> v.pos, den |-> 10000],
         neg      |-> [num |-> v.neg, den |-> 10000],
         neu      |-> [num |-> v.neu, den |-> 10000]]

_extract_sentiment_features(sia, text) ==
    LET sentiment_scores == IF sia # None THEN polarity_scores(sia, text)
                            ELSE IF text \in ValidTexts
                                 THEN (CHOOSE r \in SIMPLE_SENTIMENT : r.text = text).scores
                            ELSE _simple_sentiment(text)
        c == sentiment_scores.compound
        is_extreme_positive == 10 * c.num > 8 * c.den
        is_extreme_negative == 10 * c.num < -8 * c.den
    IN  [ sentiment_compound   |-> c,
          sentiment_positive   |-> sentiment_scores.pos,
          sentiment_negative   |-> sentiment_scores.neg,
          sentiment_neutral    |-> sentiment_scores.neu,
          is_extreme_sentiment |-> is_extreme_positive \/ is_extreme_negative ]

\* self.sia.polarity_scores is called without a guard: None has no such
\* attribute
_extract_rating_features(sia, text, rating) ==
    IF sia = None THEN Raise("AttributeError")
    ELSE
    LET c == polarity_scores(sia, text).compound
        \* abs((rating - 3) / 2 - compound)
        sentiment_mismatch == [num |-> Abs((rating - 3) * c.den - 2 * c.num), den |-> 2 * c.den]
    IN  [ rating                    |-> rating,
          is_extreme_rating         |-> rating \in {1, 5},
          sentiment_rating_mismatch |-> sentiment_mismatch,
          high_mismatch             |-> 10 * sentiment_mismatch.num > 7 * sentiment_mismatch.den ]

_extract_reviewer_features(total_reviews, account_age_days) ==
    [ reviewer_total_reviews    |-> total_reviews,
      reviewer_account_age_days |-> account_age_days,
      is_new_reviewer           |-> account_age_days < 30,
      is_very_active            |-> total_reviews > 50,
      reviews_per_day           |-> [num |-> total_reviews, den |-> Max(account_age_days, 1)] ]

\* A datetime is [tz, day, hour]: day counts days from a Monday.  Python
\* refuses to subtract a timezone-aware datetime from datetime.now().
_extract_temporal_features(review_date, now) ==
    IF review_date.tz = "aware" THEN Raise("TypeError")
    ELSE
    LET days_since_review == ((now.day * 24 + now.hour) - (review_date.day * 24 + review_date.hour)) \div 24
    IN  [ days_since_review |-> days_since_review,
          is_recent_review  |-> days_since_review < 7,
          review_hour       |-> review_date.hour,
          is_business_hours |-> 9 <= review_date.hour /\ review_date.hour <= 17,
          is_weekend        |-> (review_date.day % 7) >= 5 ]

\* the features dict after its updates, or the exception of the first
\* extractor that raised; temporal is only looked at for a review with a date
updated(text, sentiment, ratings, reviewer, review_date, temporal) ==
    IF IsRaise(ratings) THEN ratings
    ELSE IF review_date = None
    THEN update(update(update(text, sentiment), ratings), reviewer)
    ELSE IF IsRaise(temporal) THEN temporal
    ELSE update(update(update(update(text, sentiment), ratings), reviewer), temporal)

extract_all_features(nltk, stop_words, sia, review_text, rating, reviewer_total_reviews, reviewer_account_age_days, review_date, now) ==
    updated(text_features(review_text, nltk, stop_words),
            _extract_sentiment_features(sia, review_text),
            _extract_rating_features(sia, review_text, rating),
            _extract_reviewer_features(reviewer_total_reviews, reviewer_account_age_days),
            review_date,
            _extract_temporal_features(review_date[1], now))

RECURSIVE pattern_tags(_, _, _)
pattern_tags(fake_patterns, text, i) ==
    IF i > Len(fake_patterns) THEN <<>>
    ELSE (IF re_search(fake_patterns[i], lower(text)) THEN <<"fake_pattern_" \o ToString(i)>> ELSE <<>>)
         \o pattern_tags(fake_patterns, text, i + 1)

\* a check that finds three positive words excessive
check_fake_patterns_from_three(fake_patterns, text) ==
    pattern_tags(fake_patterns, text, 1)
    \o (IF Cardinality(GroupMatches(lower(text), POSITIVE_REGEX)) >= 3 THEN <<"excessive_positive_words">> ELSE <<>>)
    \o (IF count(text, "!") > 3 THEN <<"excessive_exclamation">> ELSE <<>>)
    \o (IF Len(text) < 20 THEN <<"too_short">> ELSE <<>>)
    \o (IF Len(text) > 2000 THEN <<"too_long">> ELSE <<>>)

check_fake_patterns(fake_patterns, text) ==
    pattern_tags(fake_patterns, text, 1)
    \o (IF Cardinality(GroupMatches(lower(text), POSITIVE_REGEX)) > 3 THEN <<"excessive_positive_words">> ELSE <<>>)
    \o (IF count(text, "!") > 3 THEN <<"excessive_exclamation">> ELSE <<>>)
    \o (IF Len(text) < 20 THEN <<"too_short">> ELSE <<>>)
    \o (IF Len(text) > 2000 THEN <<"too_long">> ELSE <<>>)

\* the pattern flags of the model's texts under the patterns of __init__,
\* worked out once per text
PATTERN_FLAGS == { [text |-> t, flags |-> check_fake_patterns(FAKE_PATTERNS, t)] : t \in ValidTexts }

pattern_flags_of(fake_patterns, text) ==
    IF text \in ValidTexts /\ fake_patterns = FAKE_PATTERNS
    THEN (CHOOSE r \in PATTERN_FLAGS : r.text = text).flags
    ELSE check_fake_patterns(fake_patterns, text)

(* FakeReviewDetector                                                      *)

\* a sentiment weight of 2.0 where 0.20 is meant
WEIGHTS_unnormalised == [text_quality |-> 25, sentiment_analysis |-> 200, reviewer_behavior |-> 25, pattern_matching |-> 30]

WEIGHTS == [text_quality |-> 25, sentiment_analysis |-> 20, reviewer_behavior |-> 25, pattern_matching |-> 30]

Range(seq) == {seq[i] : i \in 1..Len(seq)}

\* a short text scored as an unusually long one
_calculate_text_quality_score_short_as_long(features) ==
    LET length     == IF features.text_length < 20 THEN 20
                      ELSE IF features.text_length > 2000 THEN 20 ELSE 0
        repetition == (IF features.repeated_words > 3 THEN 20 ELSE 0)
                      + (IF features.repeated_chars > 0 THEN 10 ELSE 0)
        style      == (IF 100 * features.capitalization_ratio.num > 15 * features.capitalization_ratio.den
                       THEN 20 ELSE 0)
                      + (IF features.exclamation_count > 3 THEN 15 ELSE 0)
        structure  == IF features.avg_sentence_length.num < 3 * features.avg_sentence_length.den THEN 10
                      ELSE IF features.avg_sentence_length.num > 30 * features.avg_sentence_length.den THEN 10
                      ELSE 0
    IN  Min(length + repetition + style + structure, 100)

_calculate_text_quality_score(features) ==
    LET length     == IF features.text_length < 20 THEN 30
                      ELSE IF features.text_length > 2000 THEN 20 ELSE 0
        repetition == (IF features.repeated_words > 3 THEN 20 ELSE 0)
                      + (IF features.repeated_chars > 0 THEN 10 ELSE 0)
        style      == (IF 100 * features.capitalization_ratio.num > 15 * features.capitalization_ratio.den
                       THEN 20 ELSE 0)
                      + (IF features.exclamation_count > 3 THEN 15 ELSE 0)
        structure  == IF features.avg_sentence_length.num < 3 * features.avg_sentence_length.den THEN 10
                      ELSE IF features.avg_sentence_length.num > 30 * features.avg_sentence_length.den THEN 10
                      ELSE 0
    IN  Min(length + repetition + style + structure, 100)

\* the amounts _calculate_text_quality_score adds to its score, in hundredths
\* and in the order of the `score +=` statements
text_quality_terms(features) ==
    (IF features.text_length < 20 THEN <<30>> ELSE IF features.text_length > 2000 THEN <<20>> ELSE <<>>)
    \o (IF features.repeated_words > 3 THEN <<20>> ELSE <<>>)
    \o (IF features.repeated_chars > 0 THEN <<10>> ELSE <<>>)
    \o (IF 100 * features.capitalization_ratio.num > 15 * features.capitalization_ratio.den THEN <<20>> ELSE <<>>)
    \o (IF features.exclamation_count > 3 THEN <<15>> ELSE <<>>)
    \o (IF features.avg_sentence_length.num < 3 * features.avg_sentence_length.den THEN <<10>>
        ELSE IF features.avg_sentence_length.num > 30 * features.avg_sentence_length.den THEN <<10>>
        ELSE <<>>)

_calculate_sentiment_score(features) ==
    Min((IF features.is_extreme_sentiment THEN 40 ELSE 0)
        + (IF features.high_mismatch THEN 30 ELSE 0)
        + (IF features.is_extreme_rating THEN 20 ELSE 0), 100)

\* the amounts _calculate_sentiment_score adds, in order
sentiment_terms(features) ==
    (IF features.is_extreme_sentiment THEN <<40>> ELSE <<>>)
    \o (IF features.high_mismatch THEN <<30>> ELSE <<>>)
    \o (IF features.is_extreme_rating THEN <<20>> ELSE <<>>)

\* a score whose two activity checks are both made, `if` for `elif`
_calculate_reviewer_behavior_score_both_rates(features) ==
    LET rpd == features.reviews_per_day
    IN  Min((IF features.is_new_reviewer THEN 30 ELSE 0)
            + (IF rpd.num > 2 * rpd.den THEN 40 ELSE 0)
            + (IF rpd.num > rpd.den THEN 20 ELSE 0)
            + (IF features.reviewer_total_reviews = 1 THEN 20
               ELSE IF features.reviewer_total_reviews < 5 THEN 10 ELSE 0), 100)

_calculate_reviewer_behavior_score(features) ==
    LET rpd == features.reviews_per_day
    IN  Min((IF features.is_new_reviewer THEN 30 ELSE 0)
            + (IF rpd.num > 2 * rpd.den THEN 40 ELSE IF rpd.num > rpd.den THEN 20 ELSE 0)
            + (IF features.reviewer_total_reviews = 1 THEN 20
               ELSE IF features.reviewer_total_reviews < 5 THEN 10 ELSE 0), 100)

\* the amounts _calculate_reviewer_behavior_score adds, in order
reviewer_behavior_terms(features) ==
    (IF features.is_new_reviewer THEN <<30>> ELSE <<>>)
    \o (IF features.reviews_per_day.num > 2 * features.reviews_per_day.den THEN <<40>>
        ELSE IF features.reviews_per_day.num > features.reviews_per_day.den THEN <<20>> ELSE <<>>)
    \o (IF features.reviewer_total_reviews = 1 THEN <<20>>
        ELSE IF features.reviewer_total_reviews < 5 THEN <<10>> ELSE <<>>)

_calculate_pattern_score(pattern_flags, features) ==
    Min(Len(pattern_flags) * 20
        + (IF "excessive_positive_words" \in Range(pattern_flags) THEN 10 ELSE 0)
        + (IF "excessive_exclamation" \in Range(pattern_flags) THEN 10 ELSE 0), 100)

\* the amounts _calculate_pattern_score adds to len(pattern_flags) * 0.2
pattern_terms(pattern_flags) ==
    (IF "excessive_positive_words" \in Range(pattern_flags) THEN <<10>> ELSE <<>>)
    \o (IF "excessive_exclamation" \in Range(pattern_flags) THEN <<10>> ELSE <<>>)

(* The scores as the doubles Python holds.  The definitions above give a   *)
(* score by its decimal value, which the double misses by a rounding       *)
(* error; the error tells only where the decimal value is itself the       *)
(* threshold of a comparison.                                              *)

Hundredths(terms) == [i \in 1..Len(terms) |-> Literal(terms[i], 100)]

\* score = 0.0; score += ..; return min(score, 1.0)
score_double(terms) == FMin(FSum(Float(0), Hundredths(terms), 1), Float(1))

\* base_score = len(pattern_flags) * 0.2; base_score += ..; return min(base_score, 1.0)
pattern_score_double(pattern_flags) ==
    FMin(FSum(FMul(Float(Len(pattern_flags)), Literal(20, 100)), Hundredths(pattern_terms(pattern_flags)), 1), Float(1))

\* the weighted final score of analyze_review, as a double
fake_probability_double(weights, features, pattern_flags) ==
    FAdd(FAdd(FAdd(FMul(Literal(weights.text_quality, 100), score_double(text_quality_terms(features))),
                   FMul(Literal(weights.sentiment_analysis, 100), score_double(sentiment_terms(features)))),
              FMul(Literal(weights.reviewer_behavior, 100), score_double(reviewer_behavior_terms(features)))),
         FMul(Literal(weights.pattern_matching, 100), pattern_score_double(pattern_flags)))

\* the thresholds fake_probability is compared with, in ten thousandths
THRESHOLDS == {3000, 6000}

\* fake_prob < 0.3, fake_prob < 0.6 and fake_probability > 0.6 for a
\* probability [value, side]: value is the decimal value in ten
\* thousandths and side tells, where value is a threshold, whether the
\* double is below (-1), at (0) or above (1) the double of the threshold
Below(probability, threshold) ==
    probability.value < threshold \/ (probability.value = threshold /\ probability.side < 0)

Above(probability, threshold) ==
    probability.value > threshold \/ (probability.value = threshold /\ probability.side > 0)

\* the sentiment checks in the other order
_get_behavior_flags_reordered(features) ==
    (IF features.is_new_reviewer THEN <<"new_account">> ELSE <<>>)
    \o (IF features.reviews_per_day.num > 2 * features.reviews_per_day.den
        THEN <<"high_review_frequency">> ELSE <<>>)
    \o (IF features.is_extreme_sentiment THEN <<"extreme_sentiment">> ELSE <<>>)
    \o (IF features.high_mismatch THEN <<"sentiment_rating_mismatch">> ELSE <<>>)
    \o (IF 100 * features.capitalization_ratio.num > 15 * features.capitalization_ratio.den
        THEN <<"excessive_caps">> ELSE <<>>)
    \o (IF features.text_length < 20 THEN <<"very_short_text">> ELSE <<>>)

_get_behavior_flags(features) ==
    (IF features.is_new_reviewer THEN <<"new_account">> ELSE <<>>)
    \o (IF features.reviews_per_day.num > 2 * features.reviews_per_day.den
        THEN <<"high_review_frequency">> ELSE <<>>)
    \o (IF features.high_mismatch THEN <<"sentiment_rating_mismatch">> ELSE <<>>)
    \o (IF features.is_extreme_sentiment THEN <<"extreme_sentiment">> ELSE <<>>)
    \o (IF 100 * features.capitalization_ratio.num > 15 * features.capitalization_ratio.den
        THEN <<"excessive_caps">> ELSE <<>>)
    \o (IF features.text_length < 20 THEN <<"very_short_text">> ELSE <<>>)

\* ', '.join(items)
RECURSIVE join(_)
join(items) ==
    IF items = <<>> THEN ""
    ELSE IF Len(items) = 1 THEN items[1]
    ELSE items[1] \o ", " \o join(Tail(items))

\* an explanation that lists every flag among the key indicators
_generate_explanation_every_flag(fake_prob, text_score, sentiment_score, reviewer_score, pattern_score, flags) ==
    LET base == IF Below(fake_prob, 3000) THEN "This review appears authentic"
                ELSE IF Below(fake_prob, 6000) THEN "This review shows some suspicious indicators"
                ELSE "This review appears likely to be fake"
        reasons == (IF text_score > 40 THEN <<"poor text quality">> ELSE <<>>)
                   \o (IF sentiment_score > 40 THEN <<"suspicious sentiment patterns">> ELSE <<>>)
                   \o (IF reviewer_score > 40 THEN <<"questionable reviewer behavior">> ELSE <<>>)
                   \o (IF pattern_score > 40 THEN <<"matches known fake review patterns">> ELSE <<>>)
        explanation == IF reasons # <<>> THEN base \o " due to: " \o join(reasons) \o "."
                       ELSE base \o "."
    IN  IF flags # <<>>
        THEN explanation \o " Key indicators: " \o join(flags) \o "."
        ELSE explanation

_generate_explanation(fake_prob, text_score, sentiment_score, reviewer_score, pattern_score, flags) ==
    LET base == IF Below(fake_prob, 3000) THEN "This review appears authentic"
                ELSE IF Below(fake_prob, 6000) THEN "This review shows some suspicious indicators"
                ELSE "This review appears likely to be fake"
        reasons == (IF text_score > 40 THEN <<"poor text quality">> ELSE <<>>)
                   \o (IF sentiment_score > 40 THEN <<"suspicious sentiment patterns">> ELSE <<>>)
                   \o (IF reviewer_score > 40 THEN <<"questionable reviewer behavior">> ELSE <<>>)
                   \o (IF pattern_score > 40 THEN <<"matches known fake review patterns">> ELSE <<>>)
        explanation == IF reasons # <<>> THEN base \o " due to: " \o join(reasons) \o "."
                       ELSE base \o "."
    IN  IF flags # <<>>
        THEN explanation \o " Key indicators: " \o join(SubSeq(flags, 1, Min(3, Len(flags)))) \o "."
        ELSE explanation

\* DetectionResult(...): pydantic checks the bounds of the two scores
DetectionResult(is_fake, confidence_score, fake_probability, flags, explanation) ==
    IF confidence_score < 0 \/ confidence_score > 1000000
       \/ fake_probability < 0 \/ fake_probability > 10000
    THEN Raise("ValidationError")
    ELSE [ is_fake          |-> is_fake,
           confidence_score |-> confidence_score,
           fake_probability |-> fake_probability,
           flags            |-> flags,
           explanation      |-> explanation ]

\* x or 0
or0(optional) == IF optional = None THEN 0 ELSE optional[1]

\* the component scores of analyze_review, kept with what they were worked
\* out from
scored(features, pattern_flags) ==
    IF IsRaise(features) THEN features
    ELSE [ features        |-> features,
           pattern_flags   |-> pattern_flags,
           text_score      |-> _calculate_text_quality_score(features),
           sentiment_score |-> _calculate_sentiment_score(features),
           reviewer_score  |-> _calculate_reviewer_behavior_score(features),
           pattern_score   |-> _calculate_pattern_score(pattern_flags, features) ]

\* analyze_review, up to the component scores.  detector is the
\* FakeReviewDetector object [weights, feature_extractor], its extractor
\* [sia, stop_words, fake_patterns]; nltk tells whether the NLTK tokenizers
\* are in use; review is a validated ReviewInput
component_scores(detector, nltk, review, now) ==
    scored(extract_all_features(nltk, detector.feature_extractor.stop_words,
                                detector.feature_extractor.sia, review.text, review.rating,
                                or0(review.reviewer_total_reviews),
                                or0(review.reviewer_account_age_days),
                                review.review_date, now),
           pattern_flags_of(detector.feature_extractor.fake_patterns, review.text))

\* the confidence left on the scale of the probability
classify_unscaled(fake_probability, all_flags, explanation) ==
    DetectionResult(Above(fake_probability, 6000), fake_probability.value, fake_probability.value,
                    all_flags, explanation)

\* the return statement of analyze_review
classify(fake_probability, all_flags, explanation) ==
    DetectionResult(Above(fake_probability, 6000), fake_probability.value * 100, fake_probability.value,
                    all_flags, explanation)

\* the weighted final score, in ten thousandths
weighted_score(weights, c) ==
    weights.text_quality * c.text_score
    + weights.sentiment_analysis * c.sentiment_score
    + weights.reviewer_behavior * c.reviewer_score
    + weights.pattern_matching * c.pattern_score

\* the side of the threshold the weighted final score lies on, looked at
\* only where its decimal value is the threshold
side(weights, c, value) ==
    IF value \in THRESHOLDS
    THEN FCmp(fake_probability_double(weights, c.features, c.pattern_flags), Literal(value, 10000))
    ELSE 0

\* the weighted final score as analyze_review compares it
fake_probability_of(weights, c) ==
    [value |-> weighted_score(weights, c), side |-> side(weights, c, weighted_score(weights, c))]

\* analyze_review, from the weighted score on
explained(fake_probability, c, all_flags) ==
    classify(fake_probability, all_flags,
             _generate_explanation(fake_probability, c.text_score, c.sentiment_score,
                                   c.reviewer_score, c.pattern_score, all_flags))

\* analyze_review, from the component scores on
concluded(weights, c) ==
    IF IsRaise(c) THEN c
    ELSE explained(fake_probability_of(weights, c), c, c.pattern_flags \o _get_behavior_flags(c.features))

analyze_review(detector, nltk, review, now) ==
    concluded(detector.weights, component_scores(detector, nltk, review, now))

\* an analysis that tunes the weights after a review found fake
after_analysis_tuned(detector, made) ==
    IF \E i \in 1..Len(made) : ~IsRaise(made[i].outcome) /\ made[i].outcome.is_fake
    THEN [detector EXCEPT !.weights.pattern_matching = 35, !.weights.text_quality = 20]
    ELSE detector

\* the detector after the calls made for a request: analyze_review and the
\* extractor assign no attribute of self
after_analysis(detector, made) == detector

\* analyze_batch: the list comprehension analyses the reviews in order; a
\* call that raises ends it, and the exception is what the caller gets (here
\* kept as the last outcome)
\* the results so far, and the rest unless the last call raised
until_raise(first, rest) == IF IsRaise(first[Len(first)]) THEN first ELSE first \o rest

RECURSIVE analyze_range(_, _, _, _, _, _)
analyze_range(detector, nltk, reviews, now, a, b) ==
    IF a > b THEN <<>>
    ELSE IF a = b THEN <<analyze_review(detector, nltk, reviews[a], now)>>
    ELSE until_raise(analyze_range(detector, nltk, reviews, now, a, (a + b) \div 2),
                     analyze_range(detector, nltk, reviews, now, ((a + b) \div 2) + 1, b))

analyze_batch(detector, nltk, reviews, now) ==
    analyze_range(detector, nltk, reviews, now, 1, Len(reviews))

(* Request models (pydantic) and the API routes                            *)

MAX_BATCH_ITEMS == 100

\* ReviewInput: text with 1 to 5000 characters, rating an integer from 1 to
\* 5, both required
ValidReviewInput(body) ==
    /\ body.text # None
    /\ Len(body.text[1]) >= 1
    /\ Len(body.text[1]) <= 5000
    /\ body.rating # None
    /\ body.rating[1] >= 1
    /\ body.rating[1] <= 5

ReviewInput(body) ==
    [ text                      |-> body.text[1],
      rating                    |-> body.rating[1],
      reviewer_id               |-> body.reviewer_id,
      product_id                |-> body.product_id,
      review_date               |-> body.review_date,
      reviewer_total_reviews    |-> body.reviewer_total_reviews,
      reviewer_account_age_days |-> body.reviewer_account_age_days ]

\* BatchReviewInput: at most 100 reviews, each a valid ReviewInput
ValidBatchReviewInput(body) ==
    /\ Len(body.reviews) <= MAX_BATCH_ITEMS
    /\ \A i \in 1..Len(body.reviews) : ValidReviewInput(body.reviews[i])

HTTPException(status_code, detail) == [status |-> status_code, body |-> [detail |-> detail]]

\* the body FastAPI answers with when the request does not validate
RequestValidationError == [status |-> 422, body |-> [detail |-> "validation error"]]

\* f"{processing_time:.3f}", processing_time in milliseconds below 1000
format_seconds(ms) ==
    "0." \o (IF ms < 10 THEN "00" ELSE IF ms < 100 THEN "0" ELSE "") \o ToString(ms)

\* round(num / den, 0) for num >= 0, den > 0, ties to even
round_ratio(num, den) ==
    LET q == num \div den
        r == num % den
    IN  IF 2 * r < den THEN q
        ELSE IF 2 * r > den THEN q + 1
        ELSE q + (q % 2)

\* explanation.split('.')[0]
first_sentence(explanation) ==
    LET dots == {i \in 1..Len(explanation) : Ch(explanation, i) = "."}
    IN  IF dots = {} THEN explanation
        ELSE SubSeq(explanation, 1, (CHOOSE i \in dots : \A j \in dots : i <= j) - 1)

\* a range check that lets 6 through
rating_in_range_upto6(rating) == 1 <= rating /\ rating <= 6

\* 1 <= rating <= 5 in quick_analyze
rating_in_range(rating) == 1 <= rating /\ rating <= 5

Call(review, outcome) == [review |-> review, outcome |-> outcome]

VARIABLES
    NLTK_AVAILABLE,   \* features.py: the nltk imports succeeded
    punkt_data,       \* the tokenizer data is installed: word_tokenize does not raise
    detector,         \* routes.py: the module-level FakeReviewDetector
    request,          \* the request being answered, [endpoint |-> "none"] when there is none
    response,         \* the response to it
    calls,            \* the calls of detector.analyze_review made for it, with their outcomes
    first_outcome     \* history: the first outcome of each probe review analysed so far

vars == <<NLTK_AVAILABLE, punkt_data, detector, request, response, calls, first_outcome>>

nltk_in_use == UsesNltk(NLTK_AVAILABLE, punkt_data)

NoRequest == [endpoint |-> "none"]
NoResponse == [status |-> 0]

\* FeatureExtractor.__init__: the analyser is there only when nltk was imported
\* and its lexicon and the stop words loaded
FeatureExtractor(nltk_available, lexicon) ==
    [ sia           |-> IF nltk_available /\ lexicon # None THEN lexicon ELSE None,
      stop_words    |-> IF nltk_available /\ lexicon # None THEN ENGLISH_STOPWORDS ELSE {},
      fake_patterns |-> FAKE_PATTERNS ]

\* FakeReviewDetector.__init__
FakeReviewDetector(nltk_available, lexicon) ==
    [ feature_extractor |-> FeatureExtractor(nltk_available, lexicon),
      model_version     |-> "1.0.0",
      weights           |-> WEIGHTS ]

\* the module-level objects after import: nltk importable or not, its data
\* installed or not, any lexicon
Init ==
    /\ NLTK_AVAILABLE \in BOOLEAN
    /\ punkt_data \in (IF NLTK_AVAILABLE THEN BOOLEAN ELSE {FALSE})
    /\ \E lexicon \in (IF NLTK_AVAILABLE
                       THEN {None} \cup {Some(k) : k \in 0..(Len(VADER_SCORES) - 1)}
                       ELSE {None}) :
          detector = FakeReviewDetector(NLTK_AVAILABLE, lexicon)
    /\ request = NoRequest
    /\ response = NoResponse
    /\ calls = <<>>
    /\ first_outcome = {}

(* The requests of the model                                               *)

\* the longest batch whose reviews are chosen one by one
MaxBatch == 2

NAIVE_DATE == [tz |-> "naive", day |-> 10, hour |-> 10]
AWARE_DATE == [tz |-> "aware", day |-> 12, hour |-> 20]

\* datetime.now()
NOWS == {[day |-> 14, hour |-> 9], [day |-> 40, hour |-> 12]}

\* time.time() - start_time, in milliseconds; the clock may not have moved
PROCESSING_TIMES == {0, 12}

BodyTexts == {None} \cup {Some(t) : t \in ValidTexts \cup {"", OVERSIZED_TEXT}}
BodyRatings == {None} \cup {Some(r) : r \in 0..6}
BodyTotals == {None, Some(1), Some(3), Some(15)}
BodyAges == {None, Some(2), Some(5), Some(30), Some(400)}
BodyMetas == { [reviewer_id |-> None, product_id |-> None, review_date |-> None],
               [reviewer_id |-> Some("reviewer-7"), product_id |-> Some("product-3"),
                review_date |-> Some(NAIVE_DATE)],
               [reviewer_id |-> None, product_id |-> None, review_date |-> Some(AWARE_DATE)] }

Body(text, rating, total, age, meta) ==
    [ text                      |-> text,
      rating                    |-> rating,
      reviewer_id               |-> meta.reviewer_id,
      product_id                |-> meta.product_id,
      review_date               |-> meta.review_date,
      reviewer_total_reviews    |-> total,
      reviewer_account_age_days |-> age ]

ReviewBodies ==
    { Body(text, rating, total, age, meta) :
        text \in BodyTexts, rating \in BodyRatings, total \in BodyTotals, age \in BodyAges,
        meta \in BodyMetas }

NoMeta == [reviewer_id |-> None, product_id |-> None, review_date |-> None]

\* the reviews of test_api.py, two more, and one that does not validate
BatchReviews ==
    { Body(Some(FAKE_REVIEW), Some(5), Some(1), Some(5), NoMeta),
      Body(Some(AUTHENTIC_REVIEW), Some(4), Some(15), Some(400), NoMeta),
      Body(Some("Great!!!! LOVE IT!!"), Some(5), Some(3), None, NoMeta),
      Body(Some("ok"), Some(6), None, None, NoMeta) }

BatchBodies ==
    { [reviews |-> reviews] :
        reviews \in UNION { [1..n -> BatchReviews] : n \in 0..MaxBatch }
                    \cup { [i \in 1..n |-> Body(Some("Great!!!! LOVE IT!!"), Some(5), Some(3), None, NoMeta)]
                           : n \in {MAX_BATCH_ITEMS, MAX_BATCH_ITEMS + 1} } }

\* the clock readings that matter to a review
NowsFor(body) ==
    IF body.review_date # None /\ body.review_date[1].tz = "naive" THEN NOWS
    ELSE {CHOOSE now \in NOWS : TRUE}

(* POST /analyze/single                                                    *)
analyze_single_review(body, now, processing_time) ==
    /\ request = NoRequest
    /\ request' = [endpoint |-> "single", body |-> body]
    /\ IF ~ValidReviewInput(body)
       THEN /\ response' = RequestValidationError
            /\ calls' = <<>>
       ELSE \E result \in {analyze_review(detector, nltk_in_use, ReviewInput(body), now)} :
                /\ calls' = <<Call(ReviewInput(body), result)>>
                /\ response' =
                       IF IsRaise(result) THEN HTTPException(500, "Analysis failed")
                       ELSE [status |-> 200,
                             body   |-> [result EXCEPT !.explanation =
                                            @ \o " (Analysis took " \o format_seconds(processing_time) \o "s)"]]
    /\ detector' = after_analysis(detector, calls')
    /\ UNCHANGED <<NLTK_AVAILABLE, punkt_data>>

(* POST /analyze/batch                                                     *)
batch_summary(results, processing_time) ==
    LET total_reviews == Len(results)
        fake_count    == Cardinality({i \in 1..Len(results) : results[i].is_fake})
        confidences   == [i \in 1..Len(results) |-> results[i].confidence_score]
    IN  IF total_reviews = 0 THEN Raise("ZeroDivisionError")
        ELSE IF processing_time = 0 THEN Raise("ZeroDivisionError")
        ELSE [ total_reviews           |-> total_reviews,
               fake_reviews_detected   |-> fake_count,
               fake_percentage         |-> [num |-> fake_count * 100, den |-> total_reviews],
               \* hundredths of a percent point
               average_confidence      |-> round_ratio(SumRange(confidences, 1, Len(results)),
                                                       total_reviews * 100),
               \* milliseconds
               processing_time_seconds |-> processing_time,
               \* hundredths of a review per second
               reviews_per_second      |-> round_ratio(total_reviews * 100000, processing_time) ]

analyze_batch_reviews(body, now, processing_time) ==
    /\ request = NoRequest
    /\ request' = [endpoint |-> "batch", body |-> body]
    /\ IF ~ValidBatchReviewInput(body)
       THEN /\ response' = RequestValidationError
            /\ calls' = <<>>
       ELSE IF Len(body.reviews) > 100
       THEN /\ response' = HTTPException(400, "Too many reviews. Maximum 100 reviews per batch.")
            /\ calls' = <<>>
       ELSE \E outcomes \in {analyze_batch(detector, nltk_in_use,
                                           [i \in 1..Len(body.reviews) |-> ReviewInput(body.reviews[i])],
                                           now)} :
               LET raised  == outcomes # <<>> /\ IsRaise(outcomes[Len(outcomes)])
                   summary == batch_summary(outcomes, processing_time)
               IN  /\ calls' = [i \in 1..Len(outcomes) |->
                                   Call(ReviewInput(body.reviews[i]), outcomes[i])]
                   /\ response' =
                          IF raised \/ IsRaise(summary) THEN HTTPException(500, "Batch analysis failed")
                          ELSE [status |-> 200, body |-> [results |-> outcomes, summary |-> summary]]
    /\ detector' = after_analysis(detector, calls')
    /\ UNCHANGED <<NLTK_AVAILABLE, punkt_data>>

(* POST /analyze/quick                                                     *)
quick_analyze(text, rating, now) ==
    /\ request = NoRequest
    /\ request' = [endpoint |-> "quick", text |-> text, rating |-> rating]
    /\ IF text = None \/ rating = None
       THEN /\ response' = RequestValidationError
            /\ calls' = <<>>
       ELSE IF ~rating_in_range(rating[1])
       THEN /\ response' = HTTPException(400, "Rating must be between 1 and 5")
            /\ calls' = <<>>
       ELSE LET body == Body(text, rating, Some(0), Some(0), NoMeta)
            IN  IF ~ValidReviewInput(body)
                \* ReviewInput(...) raises a ValidationError inside the try block
                THEN /\ response' = HTTPException(500, "Quick analysis failed")
                     /\ calls' = <<>>
                ELSE \E result \in {analyze_review(detector, nltk_in_use, ReviewInput(body), now)} :
                         /\ calls' = <<Call(ReviewInput(body), result)>>
                         /\ response' =
                                IF IsRaise(result) THEN HTTPException(500, "Quick analysis failed")
                                ELSE [status |-> 200,
                                      body   |-> [ is_fake    |-> result.is_fake,
                                                   confidence |-> result.confidence_score,
                                                   summary    |-> first_sentence(result.explanation),
                                                   top_flags  |-> SubSeq(result.flags, 1,
                                                                         Min(3, Len(result.flags))) ]]
    /\ detector' = after_analysis(detector, calls')
    /\ UNCHANGED <<NLTK_AVAILABLE, punkt_data>>

\* the response has gone out; the worker takes the next request
Respond ==
    /\ request # NoRequest
    /\ request' = NoRequest
    /\ response' = NoResponse
    /\ calls' = <<>>
    /\ UNCHANGED <<NLTK_AVAILABLE, punkt_data, detector, first_outcome>>

\* a worker answers one request at a time
Idle == request = NoRequest

Next ==
    \/ /\ Idle
       /\ \E body \in ReviewBodies : \E now \in NowsFor(body) : \E processing_time \in PROCESSING_TIMES :
             analyze_single_review(body, now, processing_time)
       /\ UNCHANGED first_outcome
    \/ /\ Idle
       /\ \E body \in BatchBodies : \E now \in NOWS : \E processing_time \in PROCESSING_TIMES :
             analyze_batch_reviews(body, now, processing_time)
       /\ UNCHANGED first_outcome
    \/ /\ Idle
       /\ \E text \in BodyTexts : \E rating \in BodyRatings : \E now \in NOWS :
             quick_analyze(text, rating, now)
       /\ UNCHANGED first_outcome
    \/ Respond

Spec == Init /\ [][Next]_vars

(* The same requests over the probe reviews only, with the history of the  *)
(* first outcome of each probe review.                                     *)

ProbeBodies == {b \in BatchReviews : ValidReviewInput(b)}
ProbeReviews == {ReviewInput(b) : b \in ProbeBodies}
ProbeTexts == {b.text : b \in ProbeBodies} \cup {Some("")}

\* the history after the calls made for a request: a probe review enters it
\* with its first outcome, and is marked once a later request analyses it
\* again
Remember(history, made) ==
    LET analysed == {made[i].review : i \in 1..Len(made)} \cap ProbeReviews
        known    == {h.review : h \in history}
        first(r) == CHOOSE i \in 1..Len(made) :
                        made[i].review = r /\ \A j \in 1..(i - 1) : made[j].review # r
    IN  { [h EXCEPT !.repeated = @ \/ h.review \in analysed] : h \in history }
        \cup { [review |-> r, outcome |-> made[first(r)].outcome, repeated |-> FALSE]
               : r \in analysed \ known }

NextRepeat ==
    \/ /\ Idle
       /\ \E body \in BatchReviews : \E now \in NOWS : \E processing_time \in PROCESSING_TIMES :
             analyze_single_review(body, now, processing_time)
       /\ first_outcome' = Remember(first_outcome, calls')
    \/ /\ Idle
       /\ \E body \in BatchBodies : \E now \in NOWS : \E processing_time \in PROCESSING_TIMES :
             analyze_batch_reviews(body, now, processing_time)
       /\ first_outcome' = Remember(first_outcome, calls')
    \/ /\ Idle
       /\ \E text \in ProbeTexts : \E rating \in BodyRatings : \E now \in NOWS :
             quick_analyze(text, rating, now)
       /\ first_outcome' = Remember(first_outcome, calls')
    \/ Respond

SpecRepeat == Init /\ [][NextRepeat]_vars

(* Properties                                                              *)

\* the calls, among those made for the request, that returned a result
Returned == {i \in 1..Len(calls) : ~IsRaise(calls[i].outcome)}

Has(flags, tag) == \E i \in 1..Len(flags) : flags[i] = tag

Before(flags, a, b) == \E i, j \in 1..Len(flags) : i < j /\ flags[i] = a /\ flags[j] = b

\* the features and component scores analyze_review worked with in a call
\* (the clock only enters the temporal features, which no score reads)
ScoresOf(call) == component_scores(detector, nltk_in_use, call.review, CHOOSE now \in NOWS : TRUE)

\* what the conditions of the pattern flags read off a text, once per text
TEXT_STATS ==
    { [ text         |-> t,
        patterns     |-> {k \in 1..Len(FAKE_PATTERNS) : re_search(FAKE_PATTERNS[k], lower(t))},
        positives    |-> Cardinality(GroupMatches(lower(t), POSITIVE_REGEX)),
        exclamations |-> count(t, "!"),
        flagless     |-> check_fake_patterns(FAKE_PATTERNS, t) = <<>> ] : t \in ValidTexts }

StatsOf(text) == CHOOSE row \in TEXT_STATS : row.text = text

\* C1: every DetectionResult that analyze_review returns has fake_probability
\* in [0,1] and confidence_score equal to fake_probability x 100, hence in
\* [0,100]
C1_ProbabilityAndConfidence ==
    \A i \in Returned :
        LET result == calls[i].outcome
        IN  /\ result.fake_probability >= 0
            /\ result.fake_probability <= 10000
            /\ result.confidence_score = 100 * result.fake_probability
            /\ result.confidence_score >= 0
            /\ result.confidence_score <= 1000000

\* a review was analysed and found fake with a probability above 0.6
C1_Witness ==
    \E i \in Returned : calls[i].outcome.is_fake /\ calls[i].outcome.fake_probability > 6000

\* C2: analyze_review is total: every call on a well-formed ReviewInput
\* returns a DetectionResult and none raises, whether or not the extractor
\* has a sentiment analyser
C2_AnalyzeReviewTotal ==
    \A i \in 1..Len(calls) : ~IsRaise(calls[i].outcome)

\* C3: for every rating and every text shorter than 20 characters the flags
\* hold too_short and, after it, very_short_text, and the text quality score
\* is at least 0.3
C3_ShortText ==
    \A i \in Returned :
        Len(calls[i].review.text) < 20 =>
            /\ Before(calls[i].outcome.flags, "too_short", "very_short_text")
            /\ ScoresOf(calls[i]).text_score >= 30

\* a short text was analysed whose text quality score is exactly 0.3
C3_Witness ==
    \E i \in Returned :
        /\ Len(calls[i].review.text) < 20
        /\ ScoresOf(calls[i]).text_score = 30

\* C4: a batch request that passes validation (0 to 100 valid reviews) is
\* answered with one DetectionResult per review, in input order, each the
\* result of analyze_review for that review, and a summary whose
\* fake_percentage is 100 x fake_count / total_count
C4_BatchResults ==
    (request.endpoint = "batch" /\ ValidBatchReviewInput(request.body)) =>
        /\ response.status = 200
        /\ Len(response.body.results) = Len(request.body.reviews)
        /\ \A i \in 1..Len(request.body.reviews) :
              response.body.results[i] =
                  analyze_review(detector, nltk_in_use, ReviewInput(request.body.reviews[i]),
                                 CHOOSE now \in NOWS : TRUE)
        /\ LET fake_count == Cardinality({i \in 1..Len(response.body.results) :
                                              response.body.results[i].is_fake})
           IN  response.body.summary.fake_percentage.num * Len(request.body.reviews)
                  = 100 * fake_count * response.body.summary.fake_percentage.den

Malformed ==
    \/ request.endpoint = "single" /\ ~ValidReviewInput(request.body)
    \/ request.endpoint = "batch" /\ ~ValidBatchReviewInput(request.body)
    \/ /\ request.endpoint = "quick"
       /\ \/ request.text = None
          \/ request.rating = None
          \/ request.rating[1] < 1
          \/ request.rating[1] > 5
          \/ Len(request.text[1]) < 1
          \/ Len(request.text[1]) > 5000

\* C6: malformed input on any analysis endpoint is rejected with a client
\* error (4xx), never a server error, and the detector is not invoked
C6_MalformedRejected ==
    Malformed => /\ response.status >= 400
                 /\ response.status <= 499
                 /\ calls = <<>>

\* C7: a quick-analyze request whose rating is an integer outside 1..5 is
\* rejected with a client error and analyze_review is not called for it
C7_QuickRatingRejected ==
    (/\ request.endpoint = "quick"
     /\ request.rating # None
     /\ (request.rating[1] < 1 \/ request.rating[1] > 5))
        => /\ response.status >= 400
           /\ response.status <= 499
           /\ calls = <<>>

\* quick-analyze has answered 400 to a rating of 6 sent with a text
C7_Witness ==
    /\ request.endpoint = "quick"
    /\ request.rating = Some(6)
    /\ request.text = Some(FAKE_REVIEW)
    /\ response.status = 400
    /\ calls = <<>>

\* C8: the all-capitals laptop review with rating 5, one review in total
\* and an account 5 days old is found fake (fake_probability > 0.6), with
\* fake_pattern_2, excessive_exclamation and new_account among its flags
C8_FakeReviewScenario ==
    \A i \in 1..Len(calls) :
        (/\ calls[i].review.text = FAKE_REVIEW
         /\ calls[i].review.rating = 5
         /\ calls[i].review.reviewer_total_reviews = Some(1)
         /\ calls[i].review.reviewer_account_age_days = Some(5))
            => /\ ~IsRaise(calls[i].outcome)
               /\ calls[i].outcome.is_fake
               /\ calls[i].outcome.fake_probability > 6000
               /\ Has(calls[i].outcome.flags, "fake_pattern_2")
               /\ Has(calls[i].outcome.flags, "excessive_exclamation")
               /\ Has(calls[i].outcome.flags, "new_account")

\* C9: a review with rating 4, 15 reviews in total and an account 400 days
\* old, whose text has 20 to 2000 characters, at most 3 exclamation marks
\* and matches none of the fake patterns, is not found fake and has
\* fake_probability < 0.6
C9_ModerateReviewNotFake ==
    \A i \in Returned :
        (/\ calls[i].review.rating = 4
         /\ calls[i].review.reviewer_total_reviews = Some(15)
         /\ calls[i].review.reviewer_account_age_days = Some(400)
         /\ Len(calls[i].review.text) >= 20
         /\ Len(calls[i].review.text) <= 2000
         /\ StatsOf(calls[i].review.text).exclamations <= 3
         /\ StatsOf(calls[i].review.text).patterns = {})
            => /\ ~calls[i].outcome.is_fake
               /\ calls[i].outcome.fake_probability < 6000

\* such a review was analysed with an extreme sentiment that does not match
\* its rating
C9_Witness ==
    \E i \in Returned :
        /\ calls[i].review.rating = 4
        /\ calls[i].review.reviewer_total_reviews = Some(15)
        /\ calls[i].review.reviewer_account_age_days = Some(400)
        /\ Len(calls[i].review.text) >= 20
        /\ Len(calls[i].review.text) <= 2000
        /\ StatsOf(calls[i].review.text).exclamations <= 3
        /\ StatsOf(calls[i].review.text).patterns = {}
        /\ Has(calls[i].outcome.flags, "extreme_sentiment")
        /\ Has(calls[i].outcome.flags, "sentiment_rating_mismatch")

\* the tags in the order of the claim: pattern flags, then behaviour flags
FLAG_ORDER == <<
    "fake_pattern_1", "fake_pattern_2", "fake_pattern_3", "fake_pattern_4",
    "excessive_positive_words", "excessive_exclamation", "too_short", "too_long",
    "new_account", "high_review_frequency", "sentiment_rating_mismatch",
    "extreme_sentiment", "excessive_caps", "very_short_text" >>

\* the condition of the tag number n of FLAG_ORDER, for a call
FlagCondition(n, call) ==
    LET text     == call.review.text
        features == ScoresOf(call).features
    IN  CASE n \in 1..4 -> n \in StatsOf(text).patterns
          [] n = 5  -> StatsOf(text).positives > 3
          [] n = 6  -> StatsOf(text).exclamations > 3
          [] n = 7  -> Len(text) < 20
          [] n = 8  -> Len(text) > 2000
          [] n = 9  -> features.is_new_reviewer
          [] n = 10 -> features.reviews_per_day.num > 2 * features.reviews_per_day.den
          [] n = 11 -> features.high_mismatch
          [] n = 12 -> features.is_extreme_sentiment
          [] n = 13 -> 100 * features.capitalization_ratio.num > 15 * features.capitalization_ratio.den
          [] n = 14 -> features.text_length < 20

\* C10: the flags of every DetectionResult are the tags of FLAG_ORDER whose
\* condition holds, in that order, each once
C10_FlagsInOrder ==
    \A i \in Returned :
        LET flags == calls[i].outcome.flags
            held  == {n \in 1..Len(FLAG_ORDER) : FlagCondition(n, calls[i])}
        IN  /\ Len(flags) = Cardinality(held)
            /\ \A n \in held : Has(flags, FLAG_ORDER[n])
            /\ \A a, b \in 1..Len(flags) :
                  a < b => \E m, n \in held : m < n /\ flags[a] = FLAG_ORDER[m] /\ flags[b] = FLAG_ORDER[n]

\* a result carries pattern flags and, after them, both sentiment flags
C10_Witness ==
    \E i \in Returned :
        /\ Has(calls[i].outcome.flags, "fake_pattern_1")
        /\ Has(calls[i].outcome.flags, "excessive_exclamation")
        /\ Has(calls[i].outcome.flags, "sentiment_rating_mismatch")
        /\ Has(calls[i].outcome.flags, "extreme_sentiment")

\* the reason clauses, in the order of the sub-scores they speak of
REASONS == <<
    "poor text quality", "suspicious sentiment patterns",
    "questionable reviewer behavior", "matches known fake review patterns" >>

\* the sub-score the clause number n speaks of
ReasonScore(n, scores) ==
    CASE n = 1 -> scores.text_score
      [] n = 2 -> scores.sentiment_score
      [] n = 3 -> scores.reviewer_score
      [] n = 4 -> scores.pattern_score

Clause(n, scores) == IF ReasonScore(n, scores) > 40 THEN <<REASONS[n]>> ELSE <<>>

BaseSentence(fake_probability) ==
    IF Below(fake_probability, 3000) THEN "This review appears authentic"
    ELSE IF Below(fake_probability, 6000) THEN "This review shows some suspicious indicators"
    ELSE "This review appears likely to be fake"

DueTo(reasons) == IF reasons = <<>> THEN "." ELSE " due to: " \o join(reasons) \o "."

KeyIndicators(flags) ==
    IF flags = <<>> THEN ""
    ELSE " Key indicators: " \o join(SubSeq(flags, 1, Min(3, Len(flags)))) \o "."

\* the explanation as the three parts describe it
Structured(result, scores) ==
    BaseSentence([value |-> result.fake_probability, side |-> side(detector.weights, scores, result.fake_probability)])
    \o DueTo(Clause(1, scores) \o Clause(2, scores) \o Clause(3, scores) \o Clause(4, scores))
    \o KeyIndicators(result.flags)

\* C11: the explanation of every DetectionResult is the base sentence chosen
\* by fake_probability (below 0.3, below 0.6, otherwise), then the reason
\* clauses of the sub-scores above 0.4 in the order text quality, sentiment,
\* reviewer behaviour, pattern matching, joined by ", " after "due to: ",
\* then, only when there are flags, "Key indicators: " with the first
\* min(3, number of flags) flags in their order
C11_ExplanationStructure ==
    \A i \in Returned : calls[i].outcome.explanation = Structured(calls[i].outcome, ScoresOf(calls[i]))

\* a result with more than three flags whose explanation has two reason
\* clauses after a sub-score that has none
C11_Witness ==
    \E i \in Returned :
        /\ Len(calls[i].outcome.flags) > 3
        /\ \E k, m, n \in 1..4 :
              /\ k < m /\ m < n
              /\ Clause(k, ScoresOf(calls[i])) = <<>>
              /\ Clause(m, ScoresOf(calls[i])) # <<>>
              /\ Clause(n, ScoresOf(calls[i])) # <<>>

\* the places of the lower-cased text t where a word begins
WordStarts(t) ==
    {j \in 1..Len(t) : Ch(t, j) \in WordChars /\ (j = 1 \/ Ch(t, j - 1) \notin WordChars)}

\* the word or phrase w stands at j and ends where a word ends
StandsAt(t, j, w) ==
    /\ j + Len(w) - 1 <= Len(t)
    /\ SubSeq(t, j, j + Len(w) - 1) = w
    /\ j + Len(w) > Len(t) \/ Ch(t, j + Len(w)) \notin WordChars

\* the number of the line of t that holds position j
LineOf(t, j) == Cardinality({f \in 1..j : Ch(t, f) = "\n"})

\* the whole-word occurrences of the given words and phrases in t, each
\* with its place, its line and the word
Occurrences(t, words) ==
    { [at |-> j, line |-> LineOf(t, j), word |-> w] :
        <<j, w>> \in {p \in WordStarts(t) \X words : StandsAt(t, p[1], p[2])} }

\* the superlatives of each text of the model, found once per text
SUPERLATIVES == { [text |-> t, found |-> Occurrences(lower(t), SuperlativeWords)] : t \in ValidTexts }

SuperlativesOf(text) == (CHOOSE row \in SUPERLATIVES : row.text = text).found

\* C12 as stated: fake_pattern_1 is among the flags exactly when two
\* distinct words of the superlative set are both present in the text,
\* whatever separates them
C12_DistinctSuperlatives ==
    \A i \in Returned :
        Has(calls[i].outcome.flags, "fake_pattern_1")
            <=> Cardinality({o.word : o \in SuperlativesOf(calls[i].review.text)}) >= 2

\* C12, amended: fake_pattern_1 is among the flags exactly when one line of
\* the text holds two whole-word occurrences of superlatives, of the same
\* word or of two
C12_TwoSuperlativesOnOneLine ==
    \A i \in Returned :
        Has(calls[i].outcome.flags, "fake_pattern_1")
            <=> \E o1, o2 \in SuperlativesOf(calls[i].review.text) : o1.at < o2.at /\ o1.line = o2.line

\* a text that repeats one superlative on a line was analysed and flagged
C12_Witness ==
    \E i \in Returned :
        /\ Has(calls[i].outcome.flags, "fake_pattern_1")
        /\ Cardinality({o.word : o \in SuperlativesOf(calls[i].review.text)}) = 1

ShippingPhrases == {"fast shipping", "quick delivery"}
QualityPhrases == {"great quality", "excellent product"}

\* the shipping and quality phrases of each text of the model
PRAISE ==
    { [ text     |-> t,
        shipping |-> Occurrences(lower(t), ShippingPhrases),
        quality  |-> Occurrences(lower(t), QualityPhrases) ] : t \in ValidTexts }

PraiseOf(text) == CHOOSE row \in PRAISE : row.text = text

\* C13 as stated: fake_pattern_4 is among the flags whenever the text holds
\* a shipping phrase and a quality phrase, in either order
C13_ShippingAndQuality ==
    \A i \in Returned :
        (PraiseOf(calls[i].review.text).shipping # {} /\ PraiseOf(calls[i].review.text).quality # {})
            => Has(calls[i].outcome.flags, "fake_pattern_4")

\* C13, amended: fake_pattern_4 is among the flags whenever a shipping
\* phrase is followed, on its line, by a quality phrase
C13_ShippingThenQuality ==
    \A i \in Returned :
        (\E sh \in PraiseOf(calls[i].review.text).shipping : \E q \in PraiseOf(calls[i].review.text).quality :
            sh.at < q.at /\ sh.line = q.line)
            => Has(calls[i].outcome.flags, "fake_pattern_4")

\* a text with a shipping phrase before a quality phrase was analysed and
\* flagged
C13_Witness ==
    \E i \in Returned :
        /\ Has(calls[i].outcome.flags, "fake_pattern_4")
        /\ \E sh \in PraiseOf(calls[i].review.text).shipping : \E q \in PraiseOf(calls[i].review.text).quality :
              sh.at < q.at

\* the words of the positive-word regex
RegexWords == {"great", "good", "nice", "awesome", "amazing"}

\* the positive words of each text of the model: the occurrences of the
\* words of the sentiment lexicon and of the words of the regex
POSITIVES ==
    { [ text    |-> t,
        lexicon |-> Occurrences(lower(t), positive_words),
        regex   |-> Occurrences(lower(t), RegexWords) ] : t \in ValidTexts }

PositivesOf(text) == CHOOSE row \in POSITIVES : row.text = text

Distinct(occurrences) == Cardinality({o.word : o \in occurrences})

\* C14 as stated: a text with at least 4 distinct words of the positive
\* lexicon of the sentiment fallback is flagged excessive_positive_words,
\* and the flag is there exactly when the positive-word regex matches more
\* than 3 times
C14_LexiconWordsFlagged ==
    \A i \in Returned :
        /\ Distinct(PositivesOf(calls[i].review.text).lexicon) >= 4
              => Has(calls[i].outcome.flags, "excessive_positive_words")
        /\ Has(calls[i].outcome.flags, "excessive_positive_words")
              <=> Cardinality(PositivesOf(calls[i].review.text).regex) > 3

\* C14, amended: a text with at least 4 distinct words of the regex's own
\* list (great, good, nice, awesome, amazing) is flagged
\* excessive_positive_words, and the flag is there exactly when the regex
\* matches more than 3 times
C14_RegexWordsFlagged ==
    \A i \in Returned :
        /\ Distinct(PositivesOf(calls[i].review.text).regex) >= 4
              => Has(calls[i].outcome.flags, "excessive_positive_words")
        /\ Has(calls[i].outcome.flags, "excessive_positive_words")
              <=> Cardinality(PositivesOf(calls[i].review.text).regex) > 3

\* a text with four distinct words of the regex was analysed and flagged
C14_Witness ==
    \E i \in Returned :
        /\ Distinct(PositivesOf(calls[i].review.text).regex) >= 4
        /\ Has(calls[i].outcome.flags, "excessive_positive_words")

\* the sub-scores stay within what a review without pattern flags can reach
Unflagged(result, scores) ==
    /\ scores.text_score <= 60
    /\ scores.sentiment_score <= 90
    /\ scores.reviewer_score <= 80
    /\ result.fake_probability < 6000
    /\ ~result.is_fake

\* C15: a review for which check_fake_patterns returns no flag has a text
\* quality score of at most 0.6, a sentiment score of at most 0.9 and a
\* reviewer score of at most 0.8, a fake_probability below 0.6, and is not
\* classified as fake
C15_NoPatternFlagNotFake ==
    \A i \in Returned :
        StatsOf(calls[i].review.text).flagless => Unflagged(calls[i].outcome, ScoresOf(calls[i]))

\* a review without pattern flags was analysed whose sentiment and reviewer
\* scores are the highest such a review can have
C15_Witness ==
    \E i \in Returned :
        /\ StatsOf(calls[i].review.text).flagless
        /\ ScoresOf(calls[i]).sentiment_score = 90
        /\ ScoresOf(calls[i]).reviewer_score = 80

LIKELY_FAKE == "This review appears likely to be fake"

\* the explanation opens with the sentence
OpensWith(explanation, sentence) ==
    Len(explanation) >= Len(sentence) /\ SubSeq(explanation, 1, Len(sentence)) = sentence

\* C16: in every DetectionResult is_fake is true exactly when the
\* explanation opens with "This review appears likely to be fake", whatever
\* the fake_probability, 0.6 included
C16_ClassificationMatchesExplanation ==
    \A i \in Returned : calls[i].outcome.is_fake <=> OpensWith(calls[i].outcome.explanation, LIKELY_FAKE)

\* the review with its four scored fields alone
Bare(review) == [review EXCEPT !.reviewer_id = None, !.product_id = None, !.review_date = None]

\* C17: the outcome of every call is the outcome of analysing the review
\* that agrees with it on text, rating, reviewer_total_reviews and
\* reviewer_account_age_days and has no reviewer_id, product_id or
\* review_date, at any reading of the clock
C17_DependsOnScoredFieldsOnly ==
    \A i \in 1..Len(calls) : \A now \in NOWS :
        calls[i].outcome = analyze_review(detector, nltk_in_use, Bare(calls[i].review), now)

====
